---- MODULE Spec2Model ----
(***************************************************************************)
(* Model of golem/core/keysauth.py: the random helpers, the difficulty     *)
(* predicate, the key store (load, backup, save) and the KeysAuth facade.  *)
(*                                                                         *)
(* Python values are represented as follows.                               *)
(*   bytes    a sequence of integers 0..255                                *)
(*   str      a sequence of one-character strings                          *)
(*   int      a machine-size integer where the code only compares or       *)
(*            counts; the 256-bit hash arithmetic uses unbounded naturals  *)
(*            written as bit sequences, most significant bit first, with   *)
(*            no leading zero (zero is the empty sequence)                 *)
(*   a value whose Python type the code tests (isinstance, is None, len)   *)
(*            is a record [t |-> type name, v |-> value]                   *)
(***************************************************************************)
EXTENDS Integers, Sequences, FiniteSets, TLC

VARIABLES keys_dir, files, inst, call

vars == <<keys_dir, files, inst, call>>

(***************************************************************************)
(* Bounds of the model.                                                    *)
(***************************************************************************)
\* number of KeysAuth constructions in one behaviour
MaxInst == 2
\* iterations of the generation loop that are followed
MaxIters == 2
\* how many values next to each end of a range the random generator draws
MaxDraw == 1
\* number of distinct readings of the wall clock
MaxDate == 2

(***************************************************************************)
(* Program constants.                                                      *)
(***************************************************************************)
PRIV_KEY_LEN == 32
PUB_KEY_LEN == 64
HEX_PUB_KEY_LEN == 128
KEY_ID_LEN == 128
\* sys.maxsize of a 32-bit build
maxsize == 2147483647
\* width of a SHA-256 digest in bits: the 256 of _count_max_hash
HASH_BITS == 256

(***************************************************************************)
(* Unbounded naturals as bit sequences.                                    *)
(***************************************************************************)
Zeros(n) == [i \in 1..n |-> 0]

StripLeadingZeros(bits) ==
    LET NZ == {i \in 1..Len(bits) : bits[i] # 0}
    IN  IF NZ = {} THEN <<>>
        ELSE SubSeq(bits, CHOOSE i \in NZ : \A j \in NZ : i <= j, Len(bits))

\* the Python int 2
BigTwo == <<1, 0>>

\* x << n of Python: a negative shift count raises ValueError
ShiftLeft(x, n) ==
    IF n < 0 THEN [exc |-> "ValueError", val |-> <<>>]
    ELSE [exc |-> "none", val |-> IF x = <<>> THEN <<>> ELSE x \o Zeros(n)]

\* the first index at which two bit sequences of equal length differ, 0 if none
FirstDiff(a, b) ==
    LET D == {i \in 1..Len(a) : a[i] # b[i]}
    IN  IF D = {} THEN 0 ELSE CHOOSE i \in D : \A j \in D : i <= j

\* a < b on naturals
BigLess(a, b) ==
    IF Len(a) # Len(b) THEN Len(a) < Len(b)
    ELSE LET i == FirstDiff(a, b) IN i # 0 /\ a[i] < b[i]

\* int.from_bytes(bytes, 'big')
BitOfBytes(bs, i) == (bs[((i - 1) \div 8) + 1] \div (2 ^ (7 - ((i - 1) % 8)))) % 2

int_from_bytes_big(bs) ==
    StripLeadingZeros([i \in 1..(8 * Len(bs)) |-> BitOfBytes(bs, i)])

(***************************************************************************)
(* hashlib.sha256: a fixed stand-in for the library's function. The digest *)
(* is chosen by the first byte of the input: the number of leading zero    *)
(* bits comes from ZeroBitsTable, and the bits after the first one bit are *)
(* all zero (even first byte) or all one (odd first byte), so that digests *)
(* equal to a power of two and digests just below one both occur.          *)
(***************************************************************************)
ZeroBitsTable == <<0, 1, 2, 8, 256, 128, 254, 255>>

DigestBit(first, i) ==
    LET z == ZeroBitsTable[((first \div 2) % Len(ZeroBitsTable)) + 1]
    IN  IF i <= z THEN 0 ELSE IF i = z + 1 THEN 1 ELSE first % 2

DigestByte(first, j) ==
    LET b(k) == DigestBit(first, 8 * (j - 1) + k)
    IN  128 * b(1) + 64 * b(2) + 32 * b(3) + 16 * b(4)
        + 8 * b(5) + 4 * b(6) + 2 * b(7) + b(8)

sha256_digest(bs) ==
    LET first == IF bs = <<>> THEN 0 ELSE bs[1]
    IN  [j \in 1..(HASH_BITS \div 8) |-> DigestByte(first, j)]

(***************************************************************************)
(* golem.utils.encode_hex / decode_hex and str.encode.                     *)
(***************************************************************************)
HexDigits == <<"0", "1", "2", "3", "4", "5", "6", "7",
               "8", "9", "a", "b", "c", "d", "e", "f">>

HexChars == {HexDigits[i] : i \in 1..16}

HexValue(c) == (CHOOSE i \in 1..16 : HexDigits[i] = c) - 1

encode_hex(bs) ==
    [i \in 1..(2 * Len(bs)) |->
        IF i % 2 = 1 THEN HexDigits[(bs[(i + 1) \div 2] \div 16) + 1]
        ELSE HexDigits[(bs[i \div 2] % 16) + 1]]

\* bytes.fromhex: an odd length or a character that is no hex digit raises
decode_hex(s) ==
    IF Len(s) % 2 = 1 \/ \E i \in 1..Len(s) : s[i] \notin HexChars
    THEN [exc |-> "ValueError", val |-> <<>>]
    ELSE [exc |-> "none",
          val |-> [i \in 1..(Len(s) \div 2) |->
                      16 * HexValue(s[2 * i - 1]) + HexValue(s[2 * i])]]

\* str.encode() of a string of hex digits and letters: the ASCII codes
AsciiCode(c) ==
    IF c \in HexChars
    THEN (IF HexValue(c) < 10 THEN 48 + HexValue(c) ELSE 87 + HexValue(c))
    ELSE 63

str_encode(s) == [i \in 1..Len(s) |-> AsciiCode(s[i])]

Bytes(v) == [t |-> "bytes", v |-> v]
Str(v) == [t |-> "str", v |-> v]
None == [t |-> "None", v |-> <<>>]
\* a Python int passed where bytes are expected: it has no len()
IntObj(n) == [t |-> "int", v |-> <<n>>]

(***************************************************************************)
(* sha2, _count_max_hash, is_pubkey_difficult.                             *)
(***************************************************************************)
sha2(seed) ==
    LET bs == IF seed.t = "str" THEN str_encode(seed.v) ELSE seed.v
    IN  int_from_bytes_big(sha256_digest(bs))

count_max_hash_shift_one_less(difficulty) ==
    ShiftLeft(BigTwo, HASH_BITS - difficulty - 2)

count_max_hash_growing(difficulty) == ShiftLeft(BigTwo, difficulty)

count_max_hash(difficulty) == ShiftLeft(BigTwo, HASH_BITS - difficulty - 1)

is_pubkey_difficult(pub_key, difficulty) ==
    LET key == IF pub_key.t = "str" THEN decode_hex(pub_key.v)
               ELSE [exc |-> "none", val |-> pub_key.v]
        max_hash == count_max_hash(difficulty)
    IN  IF key.exc # "none" THEN [exc |-> key.exc, val |-> FALSE]
        ELSE IF max_hash.exc # "none" THEN [exc |-> max_hash.exc, val |-> FALSE]
        ELSE [exc |-> "none",
              val |-> BigLess(sha2(Bytes(key.val)), max_hash.val)]

(***************************************************************************)
(* Crypto.Random.random.randrange(start, stop): an integer of the half     *)
(* open range [start, stop). The candidates followed are the integers next *)
(* to either end of the range, the two ends and start - 1 included; the    *)
(* generator returns the ones inside its range.                            *)
(***************************************************************************)
Draws(start, stop) ==
    {start - 1 + k : k \in {j \in 0..(MaxDraw + 1) : start - 1 <= stop - j}}
    \cup {stop - k : k \in 0..MaxDraw}

randrange(start, stop) == {v \in Draws(start, stop) : start <= v /\ v < stop}

(***************************************************************************)
(* get_random: the set of outcomes of one call. exc is the exception that  *)
(* leaves the call, val the value returned, drawn whether randrange was    *)
(* called. max_value is None or IntObj(n).                                 *)
(***************************************************************************)
get_random_raises_on_equal(min_value, max_value) ==
    LET mx == IF max_value = None THEN maxsize ELSE max_value.v[1]
    IN  IF min_value >= mx
        THEN {[exc |-> "ArithmeticError", val |-> 0, drawn |-> FALSE]}
        ELSE {[exc |-> "none", val |-> v, drawn |-> TRUE] :
                  v \in randrange(min_value, mx)}

get_random(min_value, max_value) ==
    LET mx == IF max_value = None THEN maxsize ELSE max_value.v[1]
    IN  IF min_value > mx
        THEN {[exc |-> "ArithmeticError", val |-> 0, drawn |-> FALSE]}
        ELSE IF min_value = mx
        THEN {[exc |-> "none", val |-> min_value, drawn |-> FALSE]}
        ELSE {[exc |-> "none", val |-> v, drawn |-> TRUE] :
                  v \in randrange(min_value, mx)}

(***************************************************************************)
(* get_random_float. A float is the decimal fraction m / 10^e, kept with m *)
(* free of trailing zeros (0.10 and 0.1 are one float). Every result of    *)
(* get_random(2) has at most ten digits, so the division is exact.         *)
(***************************************************************************)
RECURSIVE DecimalDigits(_)
\* the decimal digits of n >= 0, most significant first: str(n)
DecimalDigits(n) ==
    IF n < 10 THEN <<n>> ELSE Append(DecimalDigits(n \div 10), n % 10)

RECURSIVE Float(_, _)
Float(m, e) ==
    IF m # 0 /\ m % 10 = 0 /\ e > 0 THEN Float(m \div 10, e - 1)
    ELSE [m |-> m, e |-> e]

get_random_float_min_one ==
    {Float(result.val - 1, Len(DecimalDigits(result.val))) :
        result \in get_random(1, None)}

get_random_float ==
    {Float(result.val - 1, Len(DecimalDigits(result.val))) :
        result \in get_random(2, None)}

\* str(f) of a float in [0.0001, 1): "0." and the digits of the fraction
float_str(f) ==
    LET ds == DecimalDigits(f.m)
    IN  <<"0", ".">> \o [i \in 1..f.e |->
            IF i <= f.e - Len(ds) THEN "0"
            ELSE HexDigits[ds[i - (f.e - Len(ds))] + 1]]

(***************************************************************************)
(* golem_messages.cryptography: stand-ins for the library's primitives.    *)
(*   mk_privkey(seed)   32 bytes derived from the seed string              *)
(*   privtopub(priv)    64 bytes, a fixed injective function of the key    *)
(*   ECCx(priv).sign    a signature names its signer and its message       *)
(*   ecdsa_verify       the set of outcomes on well and ill formed input   *)
(*   ecies              a ciphertext names its recipient and its plaintext *)
(***************************************************************************)
RECURSIVE DigitSum(_)
DigitSum(s) ==
    IF s = <<>> THEN 0
    ELSE (IF Head(s) \in HexChars THEN HexValue(Head(s)) ELSE 0)
         + DigitSum(Tail(s))

mk_privkey(seed) == [i \in 1..PRIV_KEY_LEN |-> DigitSum(seed) % 256]

privtopub(priv_key) ==
    [i \in 1..PUB_KEY_LEN |->
        IF i <= Len(priv_key) THEN priv_key[i]
        ELSE 255 - priv_key[((i - 1) % Len(priv_key)) + 1]]

ECCx(priv_key) == [priv |-> priv_key]

Signature(pub_key, data) == [t |-> "sig", signer |-> pub_key, msg |-> data]

ecc_sign(ecc, data) == Signature(privtopub(ecc.priv), data)

\* the outcomes of ecdsa_verify(public_key, sig, data): the assertions on the
\* lengths, any other failure of the library, or the verdict
ecdsa_verify(public_key, sig, data) ==
    IF Len(public_key.v) # PUB_KEY_LEN
    THEN {[exc |-> "AssertionError", val |-> FALSE]}
    ELSE IF public_key.t # "bytes"
    THEN {[exc |-> "Exception", val |-> FALSE]}
    ELSE IF sig.t # "sig"
    THEN {[exc |-> "AssertionError", val |-> FALSE],
          [exc |-> "Exception", val |-> FALSE]}
    ELSE {[exc |-> "none",
           val |-> sig.signer = public_key.v /\ sig.msg = data]}

Ciphertext(pub_key, data) == [t |-> "ecies", to |-> pub_key, msg |-> data]

ecies_encrypt(data, public_key) ==
    IF public_key.t # "bytes" \/ Len(public_key.v) # PUB_KEY_LEN
    THEN [exc |-> "Exception", val |-> <<>>]
    ELSE [exc |-> "none", val |-> Ciphertext(public_key.v, data)]

ecies_decrypt(ecc, data) ==
    IF data.t # "ecies" \/ data.to # privtopub(ecc.priv)
    THEN [exc |-> "Exception", val |-> <<>>]
    ELSE [exc |-> "none", val |-> data.msg]

(***************************************************************************)
(* The keys directory. files maps the name of each file of the directory   *)
(* to its contents; keys_dir tells whether the directory exists.           *)
(***************************************************************************)
KEYS_SUBDIR == <<"k", "e", "y", "s">>

\* the datadir and the private_key_name every construction is given
Datadir == <<"d">>
PRIVATE_KEY == <<"k", ".", "p">>

\* os.path.join(keys_dir, private_key_name) and os.path.split of it
PathJoin(dirname, filename) == [dirname |-> dirname, filename |-> filename]

Exists(fs, filename) == filename \in DOMAIN fs

\* open(path, 'wb') and write: creates or replaces the file
WriteFile(fs, filename, content) ==
    [n \in DOMAIN fs \cup {filename} |->
        IF n = filename THEN content ELSE fs[n]]

CopyFile(fs, src, dst) ==
    [n \in DOMAIN fs \cup {dst} |-> IF n = dst THEN fs[src] ELSE fs[n]]

\* os.rename(src, dst) of an existing src: dst is replaced when it exists
Rename(fs, src, dst) ==
    [n \in (DOMAIN fs \ {src}) \cup {dst} |->
        IF n = dst THEN fs[src] ELSE fs[n]]

\* str.replace(old, new) on single characters
str_replace(s, old, new) == [i \in 1..Len(s) |-> IF s[i] = old THEN new ELSE s[i]]

\* datetime.now().strftime("%Y-%m-%d_%H-%M-%S_%f") of clock reading t
strftime(t) == <<ToString(t)>>

\* the readings datetime.now() can give: the wall clock is not monotonic
Dates == 1..MaxDate

filename_bak(filename, date) ==
    str_replace(filename, ".", "_") \o <<"_">> \o date \o <<".", "b", "a", "k">>

IsBackupName(n) == Len(n) > 4 /\ SubSeq(n, Len(n) - 3, Len(n)) = <<".", "b", "a", "k">>

Backups(fs) == {n \in DOMAIN fs : IsBackupName(n)}

(***************************************************************************)
(* _load_and_check_keys: None, or the key pair of the file.                *)
(***************************************************************************)
NoKeys == [found |-> FALSE, priv_key |-> <<>>, pub_key |-> <<>>]

load_and_check_keys_no_length_check(fs, private_key_path, difficulty) ==
    IF ~Exists(fs, private_key_path.filename) THEN NoKeys
    ELSE LET priv_key == fs[private_key_path.filename]
             pub_key == privtopub(priv_key)
         IN  IF priv_key = <<>> THEN NoKeys
             ELSE IF ~is_pubkey_difficult(Bytes(pub_key), difficulty).val
             THEN NoKeys
             ELSE [found |-> TRUE, priv_key |-> priv_key, pub_key |-> pub_key]

load_and_check_keys_inverted_check(fs, private_key_path, difficulty) ==
    IF ~Exists(fs, private_key_path.filename) THEN NoKeys
    ELSE LET priv_key == fs[private_key_path.filename]
         IN  IF Len(priv_key) # PRIV_KEY_LEN THEN NoKeys
             ELSE LET pub_key == privtopub(priv_key)
                  IN  IF is_pubkey_difficult(Bytes(pub_key), difficulty).val
                      THEN NoKeys
                      ELSE [found |-> TRUE, priv_key |-> priv_key,
                            pub_key |-> pub_key]

load_and_check_keys_no_difficulty_check(fs, private_key_path, difficulty) ==
    IF ~Exists(fs, private_key_path.filename) THEN NoKeys
    ELSE LET priv_key == fs[private_key_path.filename]
         IN  IF Len(priv_key) # PRIV_KEY_LEN THEN NoKeys
             ELSE [found |-> TRUE, priv_key |-> priv_key,
                   pub_key |-> privtopub(priv_key)]

load_and_check_keys(fs, private_key_path, difficulty) ==
    IF ~Exists(fs, private_key_path.filename) THEN NoKeys
    ELSE LET priv_key == fs[private_key_path.filename]
         IN  IF Len(priv_key) # PRIV_KEY_LEN THEN NoKeys
             ELSE LET pub_key == privtopub(priv_key)
                  IN  IF ~is_pubkey_difficult(Bytes(pub_key), difficulty).val
                      THEN NoKeys
                      ELSE [found |-> TRUE, priv_key |-> priv_key,
                            pub_key |-> pub_key]

(***************************************************************************)
(* The instances. pc is the place of the construction:                     *)
(*   new       not constructed yet                                         *)
(*   load      before _load_and_check_keys                                 *)
(*   generate  in the loop of _generate_keys                               *)
(*   save      before the os.path.exists of backup_file                    *)
(*   rename    before the os.rename of backup_file                         *)
(*   write     before the write of the key file                            *)
(*   assign    before the assignments to self                              *)
(*   done      constructed                                                 *)
(*   failed    left by an exception                                        *)
(*   stopped   the process stopped during the construction                 *)
(* arg_difficulty, path, priv_key, pub_key are the locals of __init__;     *)
(* read is what _load_and_check_keys read from the file; loaded, iters,    *)
(* bak, wrote record what the construction did; the other fields are the   *)
(* attributes of the object.                                               *)
(***************************************************************************)
Instances == 1..MaxInst

Difficulties == {0, 1, 2}

NoPath == PathJoin(<<>>, <<>>)

\* what f.read() gave: found is FALSE after FileNotFoundError
NoRead == [found |-> FALSE, content |-> <<>>]

ReadFile(fs, filename) ==
    IF Exists(fs, filename) THEN [found |-> TRUE, content |-> fs[filename]]
    ELSE NoRead

NewInstance ==
    [pc |-> "new", arg_difficulty |-> 0, path |-> NoPath,
     priv_key |-> <<>>, pub_key |-> <<>>,
     read |-> NoRead, loaded |-> FALSE, iters |-> 0, bak |-> <<>>,
     wrote |-> FALSE,
     difficulty |-> -1, private_key |-> <<>>, private_key_path |-> NoPath,
     public_key |-> <<>>, key_id |-> <<>>, ecc |-> ECCx(<<>>)]

NoCall == [op |-> "none"]

\* contents a key file left by earlier runs or by the user can have
InitContents ==
    {<<>>, [i \in 1..(PRIV_KEY_LEN - 1) |-> 5], [i \in 1..(PRIV_KEY_LEN + 1) |-> 5],
     [i \in 1..PRIV_KEY_LEN |-> 0]}

Init ==
    /\ inst = [i \in Instances |-> NewInstance]
    /\ call = NoCall
    /\ \/ keys_dir = FALSE /\ files = <<>>
       \/ keys_dir = TRUE /\ files = <<>>
       \/ /\ keys_dir = TRUE
          /\ \E c \in InitContents : files = WriteFile(<<>>, PRIVATE_KEY, c)

\* one construction at a time, in the order of the instances
NoConstructionRunning ==
    \A j \in Instances : inst[j].pc \in {"new", "done", "failed", "stopped"}

\* __init__, lines 86-87, and _get_or_create_keys_dir
Construct(i, difficulty) ==
    /\ inst[i].pc = "new"
    /\ \A j \in Instances : j < i => inst[j].pc # "new"
    /\ NoConstructionRunning
    /\ call = NoCall
    /\ keys_dir' = TRUE
    /\ inst' = [inst EXCEPT ![i].pc = "load",
                            ![i].arg_difficulty = difficulty,
                            ![i].path = PathJoin(Datadir \o KEYS_SUBDIR, PRIVATE_KEY)]
    /\ UNCHANGED <<files, call>>

\* __init__, lines 89-91
LoadAndCheckKeys(i) ==
    /\ inst[i].pc = "load"
    /\ LET loaded_keys == load_and_check_keys(files, inst[i].path, inst[i].arg_difficulty)
       IN  inst' = [inst EXCEPT
                      ![i].pc = IF loaded_keys.found THEN "assign" ELSE "generate",
                      ![i].read = ReadFile(files, inst[i].path.filename),
                      ![i].loaded = loaded_keys.found,
                      ![i].priv_key = loaded_keys.priv_key,
                      ![i].pub_key = loaded_keys.pub_key]
    /\ UNCHANGED <<keys_dir, files, call>>

GenerateLoopExitAlways(pub_key, difficulty) == TRUE

\* the exit test of the loop of _generate_keys
GenerateLoopExit(pub_key, difficulty) ==
    is_pubkey_difficult(Bytes(pub_key), difficulty).val

\* one iteration of the loop of _generate_keys
GenerateKeys(i) ==
    /\ inst[i].pc = "generate"
    /\ inst[i].iters < MaxIters
    /\ \E f \in get_random_float :
          LET priv_key == mk_privkey(float_str(f))
              pub_key == privtopub(priv_key)
          IN  inst' = [inst EXCEPT
                         ![i].pc = IF GenerateLoopExit(pub_key, inst[i].arg_difficulty)
                                   THEN "save" ELSE "generate",
                         ![i].iters = @ + 1,
                         ![i].priv_key = priv_key,
                         ![i].pub_key = pub_key]
    /\ UNCHANGED <<keys_dir, files, call>>

\* backup_file: the os.path.exists test
BackupExists(i) ==
    /\ inst[i].pc = "save"
    /\ inst' = [inst EXCEPT ![i].pc = IF Exists(files, inst[i].path.filename)
                                      THEN "rename" ELSE "write"]
    /\ UNCHANGED <<keys_dir, files, call>>

BackupRenameSkipsMissing(i) ==
    /\ inst[i].pc = "rename"
    /\ \E now \in Dates :
          LET bak == filename_bak(inst[i].path.filename, strftime(now))
          IN  IF Exists(files, inst[i].path.filename)
              THEN /\ files' = Rename(files, inst[i].path.filename, bak)
                   /\ inst' = [inst EXCEPT ![i].pc = "write", ![i].bak = bak]
              ELSE /\ files' = files
                   /\ inst' = [inst EXCEPT ![i].pc = "write"]
    /\ UNCHANGED <<keys_dir, call>>

\* backup_file: the name of the backup and the os.rename, which raises
\* FileNotFoundError when the file is not there
BackupRename(i) ==
    /\ inst[i].pc = "rename"
    /\ \E now \in Dates :
          LET bak == filename_bak(inst[i].path.filename, strftime(now))
          IN  IF Exists(files, inst[i].path.filename)
              THEN /\ files' = Rename(files, inst[i].path.filename, bak)
                   /\ inst' = [inst EXCEPT ![i].pc = "write", ![i].bak = bak]
              ELSE /\ files' = files
                   /\ inst' = [inst EXCEPT ![i].pc = "failed"]
    /\ UNCHANGED <<keys_dir, call>>

WriteKeyPublic(i) ==
    /\ inst[i].pc = "write"
    /\ files' = WriteFile(files, inst[i].path.filename, inst[i].pub_key)
    /\ inst' = [inst EXCEPT ![i].pc = "assign", ![i].wrote = TRUE]
    /\ UNCHANGED <<keys_dir, call>>

\* _save_private_key, lines 145-146
WriteKey(i) ==
    /\ inst[i].pc = "write"
    /\ files' = WriteFile(files, inst[i].path.filename, inst[i].priv_key)
    /\ inst' = [inst EXCEPT ![i].pc = "assign", ![i].wrote = TRUE]
    /\ UNCHANGED <<keys_dir, call>>

\* __init__, lines 96-101: the attributes are set and __init__ returns, which
\* ends the life of its locals
Assign(i) ==
    /\ inst[i].pc = "assign"
    /\ inst' = [inst EXCEPT ![i] =
                   [NewInstance EXCEPT !.pc = "done",
                                       !.difficulty = inst[i].arg_difficulty,
                                       !.private_key = inst[i].priv_key,
                                       !.private_key_path = inst[i].path,
                                       !.public_key = inst[i].pub_key,
                                       !.key_id = encode_hex(inst[i].pub_key),
                                       !.ecc = ECCx(inst[i].priv_key)]]
    /\ UNCHANGED <<keys_dir, files, call>>

Construction ==
    \E i \in Instances :
        \/ \E d \in Difficulties : Construct(i, d)
        \/ LoadAndCheckKeys(i)
        \/ GenerateKeys(i)
        \/ BackupExists(i)
        \/ BackupRename(i)
        \/ WriteKey(i)
        \/ Assign(i)

(***************************************************************************)
(* The public operations of a constructed instance. The program is single  *)
(* threaded: an operation is called when no construction is running. call  *)
(* is the last call, until the caller drops its result: exc the exception  *)
(* that left it ("none" when it returned), val the value returned.         *)
(***************************************************************************)
Messages == {<<>>, <<1>>}

Constructed == {i \in Instances : inst[i].pc = "done"}

\* an operation of instance i can be called
Callable(i) == i \in Constructed /\ NoConstructionRunning /\ call = NoCall

is_difficult(self, difficulty) ==
    is_pubkey_difficult(Bytes(self.public_key), difficulty)

\* 256 - math.log2(h) for a natural h: the value lies in [lo, hi], and is
\* the integer lo = hi when h is a power of two; log2(0) raises ValueError
difficulty_of_hash(h) ==
    IF h = <<>> THEN [exc |-> "ValueError", val |-> [lo |-> 0, hi |-> 0]]
    ELSE IF h = <<1>> \o Zeros(Len(h) - 1)
    THEN [exc |-> "none", val |-> [lo |-> HASH_BITS - (Len(h) - 1),
                                   hi |-> HASH_BITS - (Len(h) - 1)]]
    ELSE [exc |-> "none", val |-> [lo |-> HASH_BITS - Len(h),
                                   hi |-> HASH_BITS - (Len(h) - 1)]]

get_difficulty(self, key_id) ==
    IF key_id = None \/ key_id.v = <<>>
    THEN [exc |-> "none", val |-> [lo |-> self.difficulty, hi |-> self.difficulty]]
    ELSE LET key == decode_hex(key_id.v)
         IN  IF key.exc # "none" THEN [exc |-> key.exc, val |-> [lo |-> 0, hi |-> 0]]
             ELSE difficulty_of_hash(sha2(Bytes(key.val)))

\* len(public_key) and the decode_hex of a key of 128 characters
decode_public_key(public_key) ==
    IF public_key.t \notin {"bytes", "str"}
    THEN [exc |-> "TypeError", val |-> public_key]
    ELSE IF Len(public_key.v) = HEX_PUB_KEY_LEN
    THEN LET key == decode_hex(public_key.v)
         IN  [exc |-> key.exc, val |-> Bytes(key.val)]
    ELSE [exc |-> "none", val |-> public_key]

encrypt(self, data, public_key) ==
    LET key == decode_public_key(IF public_key = None
                                 THEN Bytes(self.public_key) ELSE public_key)
    IN  IF key.exc # "none" THEN [exc |-> key.exc, val |-> <<>>]
        ELSE ecies_encrypt(data, key.val)

decrypt(self, data) == ecies_decrypt(self.ecc, data)

sign_with_other_key(self, data) ==
    [exc |-> "none", val |-> ecc_sign(ECCx(mk_privkey(<<>>)), data)]

sign(self, data) == [exc |-> "none", val |-> ecc_sign(self.ecc, data)]

\* verify: the set of outcomes; caught is the exception the try block caught
verify_catches_assertion_only(self, sig, data, public_key) ==
    LET key == decode_public_key(IF public_key = None
                                 THEN Bytes(self.public_key) ELSE public_key)
    IN  IF key.exc # "none"
        THEN {[exc |-> key.exc, val |-> FALSE, caught |-> "none"]}
        ELSE {IF o.exc = "none" THEN [exc |-> "none", val |-> o.val, caught |-> "none"]
              ELSE IF o.exc = "AssertionError"
              THEN [exc |-> "none", val |-> FALSE, caught |-> o.exc]
              ELSE [exc |-> o.exc, val |-> FALSE, caught |-> "none"] :
                  o \in ecdsa_verify(key.val, sig, data)}

verify(self, sig, data, public_key) ==
    LET key == decode_public_key(IF public_key = None
                                 THEN Bytes(self.public_key) ELSE public_key)
    IN  IF key.exc # "none"
        THEN {[exc |-> "none", val |-> FALSE, caught |-> key.exc]}
        ELSE {IF o.exc = "none" THEN [exc |-> "none", val |-> o.val, caught |-> "none"]
              ELSE [exc |-> "none", val |-> FALSE, caught |-> o.exc] :
                  o \in ecdsa_verify(key.val, sig, data)}

\* the public keys a caller of instance i passes: none, the keys of the
\* instances as bytes, its own key as hex, and malformed ones
NotHex == [k \in 1..HEX_PUB_KEY_LEN |-> "z"]

PubKeyArgs(i) ==
    {None, Bytes(<<>>), Bytes([k \in 1..(PUB_KEY_LEN - 1) |-> 7]),
     Str(NotHex), IntObj(5), Str(inst[i].key_id)}
    \cup {Bytes(inst[j].public_key) : j \in Constructed}

\* the signatures passed to verify: malformed bytes and what its own sign
\* returned
SigArgs(i) ==
    {Bytes(<<>>)} \cup {sign(inst[j], m).val : j \in Constructed \cap {i}, m \in Messages}

\* the ciphertexts passed to decrypt: malformed bytes and messages encrypted
\* to the key of some instance
CipherArgs ==
    {Bytes(<<>>)} \cup {Ciphertext(inst[j].public_key, <<1>>) : j \in Constructed}

\* the key_id arguments of get_difficulty
KeyIdArgs(i) == {None, Str(<<>>), Str(NotHex), Str(inst[i].key_id)}

Returned(op, r) == [op |-> op, exc |-> r.exc, val |-> r.val]

IsDifficult(i, difficulty) ==
    /\ Callable(i)
    /\ call' = Returned("is_difficult", is_difficult(inst[i], difficulty))
    /\ UNCHANGED <<keys_dir, files, inst>>

GetDifficulty(i, key_id) ==
    /\ Callable(i)
    /\ call' = Returned("get_difficulty", get_difficulty(inst[i], key_id))
    /\ UNCHANGED <<keys_dir, files, inst>>

Encrypt(i, data, public_key) ==
    /\ Callable(i)
    /\ call' = Returned("encrypt", encrypt(inst[i], data, public_key))
    /\ UNCHANGED <<keys_dir, files, inst>>

Decrypt(i, data) ==
    /\ Callable(i)
    /\ call' = Returned("decrypt", decrypt(inst[i], data))
    /\ UNCHANGED <<keys_dir, files, inst>>

Sign(i, data) ==
    /\ Callable(i)
    /\ call' = Returned("sign", sign(inst[i], data))
    /\ UNCHANGED <<keys_dir, files, inst>>

VerifyStoresKey(i, sig, data, public_key) ==
    /\ Callable(i)
    /\ \E r \in verify(inst[i], sig, data, public_key) :
          call' = [op |-> "verify", exc |-> r.exc, val |-> r.val, caught |-> r.caught]
    /\ inst' = [inst EXCEPT ![i].public_key =
                   IF public_key.t = "bytes" THEN public_key.v ELSE @]
    /\ UNCHANGED <<keys_dir, files>>

Verify(i, sig, data, public_key) ==
    /\ Callable(i)
    /\ \E r \in verify(inst[i], sig, data, public_key) :
          call' = [op |-> "verify", exc |-> r.exc, val |-> r.val, caught |-> r.caught]
    /\ UNCHANGED <<keys_dir, files, inst>>

PublicOperation ==
    \E i \in Instances :
        \/ \E d \in Difficulties : IsDifficult(i, d)
        \/ \E k \in KeyIdArgs(i) : GetDifficulty(i, k)
        \/ \E m \in Messages, k \in PubKeyArgs(i) : Encrypt(i, m, k)
        \/ \E c \in CipherArgs : Decrypt(i, c)
        \/ \E m \in Messages : Sign(i, m)
        \/ \E s \in SigArgs(i), m \in Messages, k \in PubKeyArgs(i) : Verify(i, s, m, k)

\* the caller drops the result of the last call
DropResult ==
    /\ call # NoCall
    /\ call' = NoCall
    /\ UNCHANGED <<keys_dir, files, inst>>

Next == Construction \/ PublicOperation \/ DropResult

Spec == Init /\ [][Next]_vars

(***************************************************************************)
(* Constructions of a process that can stop at any point of __init__ (it   *)
(* is killed, the machine loses power): nothing more of the construction   *)
(* is run, the files stay as they are. Of a stopped construction the       *)
(* record keeps the backup it made and whether it wrote: it stopped        *)
(* between the rename and the write of _save_private_key when bak is set   *)
(* and wrote is not.                                                       *)
(***************************************************************************)
Crash(i) ==
    /\ inst[i].pc \in {"load", "generate", "save", "rename", "write", "assign"}
    /\ inst' = [inst EXCEPT ![i] =
                   [NewInstance EXCEPT !.pc = "stopped",
                                       !.bak = inst[i].bak,
                                       !.wrote = inst[i].wrote]]
    /\ UNCHANGED <<keys_dir, files, call>>

NextCrash == Construction \/ \E i \in Instances : Crash(i)

SpecCrash == Init /\ [][NextCrash]_vars

(***************************************************************************)
(* Two constructions that run at the same time, in threads or in           *)
(* processes, on the same datadir and key name: each starts whatever the   *)
(* other is doing, and the steps of __init__ interleave at the calls of    *)
(* the file system.                                                        *)
(***************************************************************************)
Racers == {1, 2}

ConstructConcurrently(i, difficulty) ==
    /\ inst[i].pc = "new"
    /\ keys_dir' = TRUE
    /\ inst' = [inst EXCEPT ![i].pc = "load",
                            ![i].arg_difficulty = difficulty,
                            ![i].path = PathJoin(Datadir \o KEYS_SUBDIR, PRIVATE_KEY)]
    /\ UNCHANGED <<files, call>>

NextRace ==
    \E i \in Racers :
        \/ \E d \in Difficulties : ConstructConcurrently(i, d)
        \/ LoadAndCheckKeys(i)
        \/ GenerateKeys(i)
        \/ BackupExists(i)
        \/ BackupRename(i)
        \/ WriteKey(i)
        \/ Assign(i)

\* the race starts with no key file, with one of a wrong length or with one
\* holding a key
InitRace ==
    /\ Init
    /\ keys_dir
    /\ Exists(files, PRIVATE_KEY) =>
          Len(files[PRIVATE_KEY]) \in {PRIV_KEY_LEN - 1, PRIV_KEY_LEN}

SpecRace == InitRace /\ [][NextRace]_vars

(***************************************************************************)
(* Calls of the module's functions on their own: is_pubkey_difficult on    *)
(* sample keys, as bytes and as hex, at every difficulty, and get_random   *)
(* on sample ranges.                                                       *)
(***************************************************************************)
PubKeySamples == {[i \in 1..PUB_KEY_LEN |-> b] : b \in 0..15}

PubKeyForms == {Bytes(k) : k \in PubKeySamples} \cup {Str(encode_hex(k)) : k \in PubKeySamples}

RandomArgs == {-1, 0, 1, 2, 3, maxsize - 1, maxsize}

IsPubkeyDifficultCall(pub_key, difficulty) ==
    /\ call = NoCall
    /\ LET r == is_pubkey_difficult(pub_key, difficulty)
       IN  call' = [op |-> "is_pubkey_difficult", pub_key |-> pub_key,
                    difficulty |-> difficulty, exc |-> r.exc, val |-> r.val]
    /\ UNCHANGED <<keys_dir, files, inst>>

GetRandomCall(min_value, max_value) ==
    /\ call = NoCall
    /\ LET outcomes == get_random(min_value, max_value)
       IN  \E r \in outcomes :
              call' = [op |-> "get_random", min_value |-> min_value,
                       max_value |-> max_value, exc |-> r.exc, val |-> r.val,
                       drawn |-> r.drawn,
                       possible |-> {o.val : o \in {x \in outcomes : x.exc = "none"}}]
    /\ UNCHANGED <<keys_dir, files, inst>>

\* a call of get_random_float; draws are the values get_random(min_value=2)
\* can return
GetRandomFloatCall ==
    /\ call = NoCall
    /\ \E f \in get_random_float :
          call' = [op |-> "get_random_float", exc |-> "none", val |-> f,
                   draws |-> {o.val : o \in get_random(2, None)}]
    /\ UNCHANGED <<keys_dir, files, inst>>

NextPure ==
    \/ \E k \in PubKeyForms, d \in 0..(HASH_BITS - 1) : IsPubkeyDifficultCall(k, d)
    \/ \E a \in RandomArgs, b \in {None} \cup {IntObj(n) : n \in RandomArgs} :
          GetRandomCall(a, b)
    \/ GetRandomFloatCall
    \/ DropResult

\* the functions are called in a process that constructed nothing
InitPure == Init /\ keys_dir = FALSE

SpecPure == InitPure /\ [][NextPure]_vars

(***************************************************************************)
(* Properties.                                                             *)
(***************************************************************************)
\* 2^n
Pow2(n) == [i \in 1..(n + 1) |-> IF i = 1 THEN 1 ELSE 0]

\* the SHA-256 digest of a key, given as bytes or as hex, read as a big-endian
\* unsigned integer
hash_as_int(k) ==
    int_from_bytes_big(sha256_digest(IF k.t = "str" THEN decode_hex(k.v).val ELSE k.v))

\* the public key's hash is below 2^(256 - d)
Meets(pub_key, d) == BigLess(hash_as_int(Bytes(pub_key)), Pow2(HASH_BITS - d))

KeyFile == PRIVATE_KEY

\* C1: for every difficulty d in 0..255 and every public key k,
\* is_pubkey_difficult(k, d) is true exactly when the hash of k, as an integer,
\* is strictly less than 2^(256-d), and _count_max_hash(d) equals 2^(256-d).
C1_DifficultIffBelowThreshold ==
    call.op = "is_pubkey_difficult" =>
        /\ call.exc = "none"
        /\ call.val = BigLess(hash_as_int(call.pub_key), Pow2(HASH_BITS - call.difficulty))
        /\ count_max_hash(call.difficulty) =
               [exc |-> "none", val |-> Pow2(HASH_BITS - call.difficulty)]

\* a key whose hash equals the threshold of the difficulty is refused
C1_Witness ==
    /\ call.op = "is_pubkey_difficult"
    /\ call.difficulty = HASH_BITS - 1
    /\ hash_as_int(call.pub_key) = Pow2(HASH_BITS - call.difficulty)
    /\ call.val = FALSE

\* C2: after a construction with difficulty d has completed, the next
\* construction on the same path with the same d adopts the identical private
\* and public key, never runs the generation loop, never writes the key file
\* and creates no backup: no step of it changes a file.
C2_Repeats(i) ==
    /\ i > 1
    /\ inst[i - 1].pc = "done"
    /\ inst[i].pc \notin {"new", "done"}
    /\ inst[i].arg_difficulty = inst[i - 1].difficulty

C2_ReconstructLoadsSameKey ==
    /\ [](\A i \in Instances :
            /\ (C2_Repeats(i) /\ inst[i].pc # "load") =>
                  /\ inst[i].pc = "assign"
                  /\ inst[i].loaded
                  /\ inst[i].iters = 0
                  /\ ~inst[i].wrote
                  /\ inst[i].bak = <<>>
                  /\ inst[i].priv_key = inst[i - 1].private_key
                  /\ inst[i].pub_key = inst[i - 1].public_key
                  /\ files[KeyFile] = inst[i - 1].private_key
            /\ (/\ i > 1
                /\ inst[i - 1].pc = "done"
                /\ inst[i].pc = "done"
                /\ inst[i].difficulty = inst[i - 1].difficulty) =>
                  /\ inst[i].private_key = inst[i - 1].private_key
                  /\ inst[i].public_key = inst[i - 1].public_key
                  /\ inst[i].key_id = inst[i - 1].key_id)
    /\ [][\A i \in Instances : C2_Repeats(i) => files' = files]_vars

\* a construction repeats the difficulty of the one before, which generated
C2_Witness ==
    \E i \in Instances :
        /\ i > 1
        /\ inst[i - 1].pc = "done"
        /\ inst[i].pc = "done"
        /\ inst[i].difficulty = inst[i - 1].difficulty
        /\ inst[i].difficulty > 0
        /\ Backups(files) = {}
        /\ files[KeyFile] = inst[i].private_key

\* C3: a save over an existing file creates exactly one new backup file, whose
\* contents are the contents the key file had, and leaves the key file holding
\* exactly the key; a save with no file at the path creates no backup.
C3_SaveCreatesOneBackup ==
    [][\A i \in Instances :
          /\ BackupRename(i) =>
                \E b \in DOMAIN files' \ DOMAIN files :
                    /\ IsBackupName(b)
                    /\ DOMAIN files' = (DOMAIN files \ {KeyFile}) \cup {b}
                    /\ files'[b] = files[KeyFile]
                    /\ \A n \in DOMAIN files \ {KeyFile} : files'[n] = files[n]
          /\ WriteKey(i) =>
                /\ files'[KeyFile] = inst[i].priv_key
                /\ Backups(files') = Backups(files)
                /\ \A n \in Backups(files) : files'[n] = files[n]]_vars

\* C4: a key file whose length is not 32 bytes is never loaded, whatever its
\* contents and the difficulty: the construction generates a key pair, moves
\* the file to a backup, writes the generated private key to the key path, and
\* the instance does not adopt the file's bytes.
C4_WrongLength(i) ==
    /\ inst[i].pc \notin {"new", "load", "done"}
    /\ inst[i].read.found
    /\ Len(inst[i].read.content) # PRIV_KEY_LEN

C4_WrongLengthRejected ==
    /\ [](\A i \in Instances :
            LET s == inst[i]
            IN  C4_WrongLength(i) =>
                  /\ ~s.loaded
                  /\ s.pc \in {"save", "rename", "write", "assign"} =>
                        /\ s.iters >= 1
                        /\ Len(s.priv_key) = PRIV_KEY_LEN
                        /\ s.priv_key # s.read.content
                  /\ s.pc \in {"save", "rename"} =>
                        /\ Exists(files, KeyFile)
                        /\ files[KeyFile] = s.read.content
                  /\ s.pc = "write" =>
                        /\ ~Exists(files, KeyFile)
                        /\ IsBackupName(s.bak)
                        /\ Exists(files, s.bak) /\ files[s.bak] = s.read.content
                  /\ s.pc = "assign" =>
                        /\ s.wrote
                        /\ files[KeyFile] = s.priv_key
                        /\ Exists(files, s.bak) /\ files[s.bak] = s.read.content)
    /\ [][\A i \in Instances :
            (C4_WrongLength(i) /\ inst'[i].pc = "done") =>
                /\ inst'[i].private_key = inst[i].priv_key
                /\ inst'[i].private_key # inst[i].read.content
                /\ files'[KeyFile] = inst'[i].private_key]_vars

\* a file of 31 bytes was found and replaced
C4_Witness ==
    \E i \in Instances :
        /\ inst[i].pc = "assign"
        /\ inst[i].read.found
        /\ Len(inst[i].read.content) = PRIV_KEY_LEN - 1
        /\ inst[i].wrote
        /\ files[KeyFile] = inst[i].priv_key

\* C5: a stored key of 32 bytes is adopted exactly when its public key meets
\* the difficulty of the construction; when it does not, also when it was
\* stored by a construction with difficulty 0, the construction generates a
\* key pair that meets the difficulty, backs the old file up and writes the
\* new private key to the key path.
C5_Stored(i) ==
    /\ inst[i].pc \notin {"new", "load", "done"}
    /\ inst[i].read.found
    /\ Len(inst[i].read.content) = PRIV_KEY_LEN

C5_UnmetDifficultyRejected ==
    /\ [](\A i \in Instances :
            LET s == inst[i]
            IN  C5_Stored(i) =>
                  /\ s.loaded <=> Meets(privtopub(s.read.content), s.arg_difficulty)
                  /\ s.loaded =>
                        /\ s.pc = "assign"
                        /\ s.priv_key = s.read.content
                        /\ s.iters = 0 /\ ~s.wrote /\ s.bak = <<>>
                  /\ (~s.loaded /\ s.pc \in {"save", "rename", "write", "assign"}) =>
                        /\ s.iters >= 1
                        /\ s.pub_key = privtopub(s.priv_key)
                        /\ Meets(s.pub_key, s.arg_difficulty)
                        /\ s.priv_key # s.read.content
                  /\ (~s.loaded /\ s.pc \in {"save", "rename"}) =>
                        /\ Exists(files, KeyFile)
                        /\ files[KeyFile] = s.read.content
                  /\ (~s.loaded /\ s.pc = "write") =>
                        /\ ~Exists(files, KeyFile)
                        /\ IsBackupName(s.bak)
                        /\ Exists(files, s.bak) /\ files[s.bak] = s.read.content
                  /\ (~s.loaded /\ s.pc = "assign") =>
                        /\ s.wrote
                        /\ files[KeyFile] = s.priv_key
                        /\ Exists(files, s.bak) /\ files[s.bak] = s.read.content)
    /\ [][\A i \in Instances :
            (C5_Stored(i) /\ inst'[i].pc = "done") =>
                /\ inst'[i].private_key = inst[i].priv_key
                /\ inst'[i].public_key = privtopub(inst'[i].private_key)
                /\ Meets(inst'[i].public_key, inst'[i].difficulty)
                /\ inst'[i].private_key = inst[i].read.content
                      <=> Meets(privtopub(inst[i].read.content), inst[i].arg_difficulty)
                /\ files'[KeyFile] = inst'[i].private_key]_vars

\* the key a construction with difficulty 0 generated is refused by a later
\* construction with a higher difficulty, which replaces it
C5_Witness ==
    \E i, j \in Instances :
        /\ j < i
        /\ inst[j].pc = "done" /\ inst[j].difficulty = 0
        /\ inst[j].private_key \notin InitContents
        /\ inst[i].pc = "assign" /\ inst[i].arg_difficulty > 0
        /\ inst[i].read = [found |-> TRUE, content |-> inst[j].private_key]
        /\ inst[i].wrote
        /\ files[KeyFile] = inst[i].priv_key

\* C6: verify never lets an exception out: it returns a boolean, and it
\* returns false whenever decoding the key or the verification primitive
\* failed.
C6_VerifyNeverRaises ==
    call.op = "verify" =>
        /\ call.exc = "none"
        /\ call.val \in BOOLEAN
        /\ call.caught # "none" => call.val = FALSE

\* an exception other than AssertionError was caught
C6_Witness ==
    /\ call.op = "verify"
    /\ call.caught \notin {"none", "AssertionError"}
    /\ call.val = FALSE

\* C7: at difficulty 0 the loop of _generate_keys ends after exactly one
\* iteration whatever seed is drawn; at any difficulty the loop is left only
\* with a key pair whose public key meets the difficulty.
C7_GenerateLoopExit ==
    \A i \in Instances :
        LET s == inst[i]
        IN  /\ s.arg_difficulty = 0 =>
                 /\ s.iters <= 1
                 /\ s.pc = "generate" => s.iters = 0
            /\ (s.pc \in {"save", "rename", "write", "assign"} /\ ~s.loaded) =>
                 /\ s.iters >= 1
                 /\ s.pub_key = privtopub(s.priv_key)
                 /\ Meets(s.pub_key, s.arg_difficulty)

\* the loop was left after one iteration at difficulty 0
C7_Witness ==
    \E i \in Instances :
        /\ inst[i].pc = "save"
        /\ inst[i].arg_difficulty = 0
        /\ inst[i].iters = 1

\* C8: for min < max get_random returns no value outside [min, max], and
\* every integer of [min, max], max included, is a possible result.
C8_ClosedRange ==
    (call.op = "get_random" /\ call.exc = "none" /\ call.drawn) =>
        LET mx == IF call.max_value = None THEN maxsize ELSE call.max_value.v[1]
        IN  /\ call.min_value <= call.val /\ call.val <= mx
            /\ \A v \in Draws(call.min_value, mx) :
                  (call.min_value <= v /\ v <= mx) => v \in call.possible

\* C9: get_random raises exactly when min > max, and then draws nothing; when
\* min = max it returns min without drawing; an omitted max is sys.maxsize.
C9_InvalidRange ==
    call.op = "get_random" =>
        LET mx == IF call.max_value = None THEN maxsize ELSE call.max_value.v[1]
        IN  /\ call.exc \in {"none", "ArithmeticError"}
            /\ call.exc = "ArithmeticError" <=> call.min_value > mx
            /\ call.exc = "ArithmeticError" => ~call.drawn
            /\ call.min_value = mx =>
                  call.exc = "none" /\ call.val = call.min_value /\ ~call.drawn
            /\ call.min_value < mx => call.drawn
            /\ call.drawn => call.min_value <= call.val /\ call.val < mx

\* the range is empty: the call raised
C9_Witness ==
    /\ call.op = "get_random"
    /\ call.max_value # None
    /\ call.min_value > call.max_value.v[1]
    /\ call.exc = "ArithmeticError"

\* C10: a public operation of a constructed instance changes no attribute of
\* any instance and no file of the keys directory.
C10_OperationsChangeNothing ==
    [][(call' # call /\ call' # NoCall) => UNCHANGED <<keys_dir, files, inst>>]_vars

\* decrypt returned the plaintext
C10_Witness ==
    /\ call.op = "decrypt"
    /\ call.exc = "none"
    /\ Constructed # {}

\* C11: for every constructed instance, with a loaded or a generated key,
\* verify(sign(m), m2) under the default public key, given as None, as bytes or
\* as hex, is true when m2 = m and false when m2 # m, and under the public key
\* of an instance holding a different key pair it is false; the signing
\* context of an instance is bound to the private key its public key was
\* derived from. Stated of every state in which an operation of the instance
\* can be called.
C11_SignVerifyRoundTrip ==
    \A i \in Instances :
        Callable(i) =>
            /\ inst[i].ecc = ECCx(inst[i].private_key)
            /\ inst[i].public_key = privtopub(inst[i].ecc.priv)
            /\ inst[i].key_id = encode_hex(inst[i].public_key)
            /\ \A m, m2 \in Messages :
                  /\ \A k \in {None, Bytes(inst[i].public_key), Str(inst[i].key_id)} :
                        verify(inst[i], sign(inst[i], m).val, m2, k) =
                            {[exc |-> "none", val |-> (m2 = m), caught |-> "none"]}
                  /\ \A j \in Constructed :
                        inst[j].private_key # inst[i].private_key =>
                            verify(inst[i], sign(inst[i], m).val, m2,
                                   Bytes(inst[j].public_key)) =
                                {[exc |-> "none", val |-> FALSE, caught |-> "none"]}

\* a signature was verified as true when one instance holds a key loaded from
\* the file and another a generated key
C11_Witness ==
    \E i, j \in Constructed :
        /\ inst[i].private_key \in InitContents
        /\ inst[j].private_key \notin InitContents
        /\ call.op = "verify"
        /\ call.exc = "none"
        /\ call.val = TRUE

\* C12: when the process stops in _save_private_key after the rename and
\* before the write, no file is at the key path, the backup holds the whole
\* previous contents and the generated key was written nowhere (no step of the
\* construction but the rename changed a file; the key is not the contents of
\* the backup); the next construction finds no key file, generates a key and
\* writes it without a backup. At every point of a save the contents found at
\* the key path are on disk, at the key path or in the backup.
StoppedInSave(i) ==
    /\ inst[i].pc = "stopped"
    /\ inst[i].bak # <<>>
    /\ ~inst[i].wrote

\* no construction was started after construction i
Latest(i) == i = MaxInst \/ inst[i + 1].pc = "new"

C13_ConcurrentConstructionsRace ==
    /\ [](\A i \in Racers :
            /\ inst[i].pc = "rename" => inst[i].iters >= 1 /\ ~inst[i].loaded
            /\ (/\ \A j \in Racers : inst[j].pc \in {"done", "failed"}
                /\ inst[i].pc = "done") =>
                  /\ Exists(files, KeyFile)
                  /\ \E j \in Constructed : files[KeyFile] = inst[j].private_key)
    /\ [][\A i \in Racers :
            /\ (inst[i].pc = "rename" /\ inst'[i] # inst[i]) =>
                  /\ inst'[i].pc = "failed" <=> ~Exists(files, KeyFile)
                  /\ inst'[i].pc = "failed" => files' = files
                  /\ inst'[i].pc # "failed" =>
                        /\ inst'[i].pc = "write"
                        /\ files'[inst'[i].bak] = files[KeyFile]
                        /\ ~Exists(files', KeyFile)
            /\ (inst[i].pc = "rename" /\ inst'[i].pc = "failed") =>
                  \E j \in Racers \ {i} :
                      inst[j].pc = "write" /\ inst[j].bak # <<>>]_vars

\* from no key file two constructions completed with different key pairs; the
\* key file holds the key of one, and no file holds the key of the other
C13_Witness ==
    \E i, j \in Constructed :
        /\ inst[i].private_key # inst[j].private_key
        /\ inst[i].public_key # inst[j].public_key
        /\ Backups(files) = {}
        /\ DOMAIN files = {KeyFile}
        /\ files[KeyFile] = inst[i].private_key
        /\ \A n \in DOMAIN files : files[n] # inst[j].private_key

\* the existence check of one construction and its rename were separated by
\* the rename of another: the rename failed on the missing file
C13_RenameFailed ==
    \E i, j \in Instances :
        /\ inst[i].pc = "failed"
        /\ inst[j].pc = "write"
        /\ inst[j].bak # <<>>
        /\ ~Exists(files, KeyFile)

\* C14: in a sequence of constructions run one after the other no step removes
\* or overwrites an existing backup file: every backup file stays, with the
\* contents it has.
C14_BackupsNeverOverwritten ==
    [][\A n \in Backups(files) :
          /\ n \in Backups(files')
          /\ files'[n] = files[n]]_vars

\* C15: when a construction that runs alone completes, by loading or by
\* generating, the key file exists, holds exactly 32 bytes and equals the
\* private key of the instance; the public key is derived from that private
\* key and meets the difficulty of the instance; key_id is the hex encoding of
\* the public key, 128 hex characters. The facts stay until the next
\* construction starts.
C15_Post(s, fs) ==
    /\ Exists(fs, s.private_key_path.filename)
    /\ s.private_key_path.filename = KeyFile
    /\ Len(fs[KeyFile]) = PRIV_KEY_LEN
    /\ fs[KeyFile] = s.private_key
    /\ s.public_key = privtopub(s.private_key)
    /\ Len(s.public_key) = PUB_KEY_LEN
    /\ s.difficulty \in Difficulties
    /\ is_difficult(s, s.difficulty) = [exc |-> "none", val |-> TRUE]
    /\ Meets(s.public_key, s.difficulty)
    /\ s.key_id = encode_hex(s.public_key)
    /\ Len(s.key_id) = KEY_ID_LEN
    /\ \A k \in 1..Len(s.key_id) : s.key_id[k] \in HexChars
    /\ decode_hex(s.key_id) = [exc |-> "none", val |-> s.public_key]

C15_ConstructionPostcondition ==
    /\ [](\A i \in Constructed : Latest(i) => keys_dir /\ C15_Post(inst[i], files))
    /\ [][\A i \in Instances :
            (inst[i].pc # "done" /\ inst'[i].pc = "done") =>
                /\ inst[i].pc = "assign"
                /\ inst[i].loaded # inst[i].wrote
                /\ inst'[i].difficulty = inst[i].arg_difficulty
                /\ inst'[i].private_key = inst[i].priv_key
                /\ files' = files]_vars

\* a construction completed by loading the key of the file, and a later one
\* with a higher difficulty completed by generating
C15_Witness ==
    \E i, j \in Constructed :
        /\ i < j
        /\ inst[i].private_key \in InitContents
        /\ inst[j].difficulty > inst[i].difficulty
        /\ inst[j].private_key \notin InitContents
        /\ files[KeyFile] = inst[j].private_key
        /\ Latest(j)

\* C16: get_random_float returns a value strictly between 0 and 1: every r
\* that get_random(min_value=2) can return has 0 < r - 1 < 10^digit_count(r),
\* and the result is (r - 1) / 10^digit_count(r) for such an r. A float is
\* m / 10^e, and m < 10^e is: m has at most e decimal digits.
C16_FloatInUnitInterval ==
    call.op = "get_random_float" =>
        /\ call.exc = "none"
        /\ call.draws # {}
        /\ \A r \in call.draws :
              /\ 2 <= r /\ r < maxsize
              /\ 0 < r - 1
              /\ Len(DecimalDigits(r - 1)) <= Len(DecimalDigits(r))
        /\ \E r \in call.draws :
              call.val = Float(r - 1, Len(DecimalDigits(r)))
        /\ 0 < call.val.m
        /\ Len(DecimalDigits(call.val.m)) <= call.val.e

\* the largest r, sys.maxsize - 1, was drawn
C16_Witness ==
    /\ call.op = "get_random_float"
    /\ maxsize - 1 \in call.draws
    /\ call.val = Float(maxsize - 2, Len(DecimalDigits(maxsize - 1)))

\* C17: acceptance is monotone in the difficulty: a public key accepted at a
\* difficulty d is accepted at every d2 with 0 <= d2 <= d. So a construction
\* that finds in the key file the key of an instance constructed with
\* difficulty d, and asks for a difficulty d2 <= d, loads that key: it runs no
\* iteration of the generation loop, writes nothing, makes no backup, and no
\* step of it changes a file.
DifficultySamples == Difficulties \cup {3, 127, 128, 254, 255}

C17_FindsKeyOf(i, j) ==
    /\ inst[i].pc \notin {"new", "load", "done"}
    /\ inst[j].pc = "done"
    /\ inst[i].read = [found |-> TRUE, content |-> inst[j].private_key]
    /\ inst[i].arg_difficulty <= inst[j].difficulty

C17_AcceptanceMonotone ==
    /\ [](\A i \in Instances :
            /\ Callable(i) =>
                  LET accepted == {d \in DifficultySamples :
                                      is_difficult(inst[i], d).val}
                  IN  /\ inst[i].difficulty \in accepted
                      /\ \A d \in accepted, d2 \in DifficultySamples :
                            d2 <= d => d2 \in accepted
            /\ (/\ i > 1
                /\ inst[i - 1].pc = "done"
                /\ inst[i].pc \notin {"new", "load", "done"}) =>
                  inst[i].read = [found |-> TRUE, content |-> inst[i - 1].private_key]
            /\ \A j \in Instances :
                  C17_FindsKeyOf(i, j) =>
                      /\ inst[i].pc = "assign"
                      /\ inst[i].loaded
                      /\ inst[i].iters = 0
                      /\ ~inst[i].wrote
                      /\ inst[i].bak = <<>>
                      /\ inst[i].priv_key = inst[j].private_key
                      /\ inst[i].pub_key = inst[j].public_key
                      /\ files[KeyFile] = inst[j].private_key)
    /\ [][\A i, j \in Instances :
            (/\ inst[i].pc = "load"
             /\ inst[j].pc = "done"
             /\ Exists(files, KeyFile)
             /\ files[KeyFile] = inst[j].private_key
             /\ inst[i].arg_difficulty <= inst[j].difficulty) =>
                /\ files' = files
                /\ inst'[i].pc = "assign"]_vars

\* a key generated at difficulty 2 was loaded by a construction with a lower
\* difficulty
C17_Witness ==
    \E i \in Instances :
        /\ i > 1
        /\ inst[i - 1].pc = "done"
        /\ inst[i - 1].difficulty = 2
        /\ inst[i - 1].private_key \notin InitContents
        /\ inst[i].pc = "assign"
        /\ inst[i].arg_difficulty < inst[i - 1].difficulty
        /\ inst[i].loaded
        /\ inst[i].priv_key = inst[i - 1].private_key
        /\ Backups(files) = {}

====
